---- MODULE Spec2Model ----
(***************************************************************************)
(* Model of the stepper motor control of motor.h: the globals maxPos,      *)
(* currPos, prevPos, isSetMax, isSetMin, isMotorRunning, the               *)
(* FastAccelStepper engine they drive (position, target, running, speed),  *)
(* the Preferences store ("maxPos", "currPos") and the MQTT report.        *)
(* One action per handler: motorMove, motorStop, motorSetMax, motorSetMin, *)
(* motorRun (the poll), stallguardInterrupt, motorSetup (restart), and the *)
(* engine's own progress.  int is 32-bit two's complement, float is IEEE   *)
(* binary32.                                                               *)
(***************************************************************************)
EXTENDS Integers, Sequences, FiniteSets

(***************************************************************************)
(* Program constants.                                                      *)
(***************************************************************************)
\* motor.h:133,134,142,174: the "very far away" position of the calibrations
SENTINEL == 2147483646
\* motor.h:43: memory.getInt("maxPos", 50000)
DEFAULT_MAXPOS == 50000
\* motor.h:44: memory.getInt("currPos", 0)
DEFAULT_CURRPOS == 0
\* motor.h:132,140: setSpeedInHz(max_speed / 4)
SLOW_DIV == 4
\* motor.h:82,171,177: setSpeedInHz(max_speed)
NORMAL_DIV == 1

(***************************************************************************)
(* Bounds of the model.                                                    *)
(***************************************************************************)
\* commands (move, stop, setMax, setMin, restart) accepted in one behaviour
MaxCmds == 3
\* stall interrupts raised in one behaviour
MaxStalls == 1
\* partial advances of the engine (short of its target) in one behaviour
MaxAdvances == 1

\* percentages a caller sends: in the accepted range -100..100 and beyond it
\* (0 and 100 are motorMin and motorMax)
Percents == {-50, 50, 120}
\* how far the engine gets between two observations of it
Strides == {25000, 48731}

(***************************************************************************)
(* int: 32-bit two's complement.  TLC's own integers are 32 bits wide and  *)
(* fail on overflow, so the wrap is computed without leaving the range.    *)
(***************************************************************************)
MAXINT == SENTINEL + 1
MININT == (-MAXINT) - 1

Add32(a, b) ==
    IF a > 0 /\ b > 0 /\ a > MAXINT - b
      THEN ((a - MAXINT) - 1) + ((b - MAXINT) - 1)
    ELSE IF a < 0 /\ b < 0 /\ a < MININT - b
      THEN ((a + MAXINT) + 1) + ((b + MAXINT) + 1)
    ELSE a + b

Sub32(a, b) ==
    IF b = MININT THEN Add32(Add32(a, MAXINT), 1) ELSE Add32(a, -b)

\* whether the exact (unbounded) value of a + b - c is the int r
ExactSum(a, b, c, r) ==
    LET K  == 65536
        hi == (a \div K) + (b \div K) - (c \div K)
        lo == (a % K) + (b % K) - (c % K)
        h  == hi + (lo \div K)
        l  == lo % K
    IN  h = r \div K /\ l = r % K

(***************************************************************************)
(* float: IEEE binary32, round to nearest even.  A value is sg * m * 2^e   *)
(* with m < 2^24, or an infinity (a division by zero).                     *)
(***************************************************************************)
RECURSIVE BitLen(_)
BitLen(n) == IF n = 0 THEN 0 ELSE 1 + BitLen(n \div 2)

Abs(i) == IF i < 0 THEN -i ELSE i

\* n * 2^e (n < 2^31; sticky: a nonzero remainder lies below n) to 24 bits
FRound24(sg, n, e, sticky) ==
    LET L == BitLen(n) IN
    IF L <= 24 THEN [sg |-> sg, m |-> n, e |-> e, inf |-> FALSE]
    ELSE LET k    == L - 24
             q    == n \div (2^k)
             r    == n % (2^k)
             half == 2^(k - 1)
             up   == r > half \/ (r = half /\ (sticky \/ q % 2 = 1))
             m    == IF up THEN q + 1 ELSE q
         IN  IF m = 2^24
               THEN [sg |-> sg, m |-> 2^23, e |-> e + k + 1, inf |-> FALSE]
               ELSE [sg |-> sg, m |-> m, e |-> e + k, inf |-> FALSE]

\* (float) i
FloatOfInt(i) ==
    IF i = MININT THEN [sg |-> -1, m |-> 2^23, e |-> 8, inf |-> FALSE]
    ELSE FRound24(IF i < 0 THEN -1 ELSE 1, Abs(i), 0, FALSE)

\* a * b, for a factor of at most 7 bits (a percentage, or 100)
FMul(a, b) ==
    IF a.inf \/ b.inf THEN [sg |-> a.sg * b.sg, m |-> 1, e |-> 0, inf |-> TRUE]
    ELSE FRound24(a.sg * b.sg, a.m * b.m, a.e + b.e, FALSE)

\* long division: the quotient q of (num * 2^s) by den, until q has 25 bits
RECURSIVE DivBits(_, _, _, _)
DivBits(q, r, den, s) ==
    IF q >= 2^24 THEN <<q, r, s>>
    ELSE DivBits(2 * q + (IF 2 * r >= den THEN 1 ELSE 0),
                 IF 2 * r >= den THEN 2 * r - den ELSE 2 * r, den, s + 1)

\* a / b
FDiv(a, b) ==
    IF b.m = 0 THEN [sg |-> a.sg * b.sg, m |-> 1, e |-> 0, inf |-> TRUE]
    ELSE IF a.m = 0 THEN [sg |-> a.sg * b.sg, m |-> 0, e |-> 0, inf |-> FALSE]
    ELSE LET d == DivBits(a.m \div b.m, a.m % b.m, b.m, 0)
         IN  FRound24(a.sg * b.sg, d[1], (a.e - b.e) - d[3], d[2] # 0)

\* (int) round(f): round half away from zero, then the conversion to int.
\* A value outside int is undefined behaviour of the conversion: the
\* hardware either saturates or yields the "integer indefinite" MININT.
RoundCast(f) ==
    IF f.inf THEN (IF f.sg > 0 THEN {MAXINT, MININT} ELSE {MININT})
    ELSE IF f.m = 0 THEN {0}
    ELSE IF f.e >= 0
      THEN IF f.e > 30 \/ f.m > MAXINT \div (2^f.e)
             THEN (IF f.sg < 0 /\ f.e <= 30 /\ f.m = 2^(31 - f.e) THEN {MININT}
                   ELSE IF f.sg > 0 THEN {MAXINT, MININT} ELSE {MININT})
             ELSE {f.sg * (f.m * 2^f.e)}
    ELSE LET k == -f.e IN
         IF k > 30 THEN {0}
         ELSE LET d == f.m \div (2^k)
                  r == f.m % (2^k)
              IN  {f.sg * (IF 2 * r >= 2^k THEN d + 1 ELSE d)}

\* motor.h:96-99 for a given maxPos: float steps = (float) percent *
\* (float) maxPos / 100.0; return (int) round(steps)
PercentToStepsOf(percent, mp) ==
    RoundCast(FDiv(FMul(FloatOfInt(percent), FloatOfInt(mp)), FloatOfInt(100)))

\* the percentage computed in int: the quotient is cut to 0 before it is scaled
CurrentPercentageOfInInt(cp, mp) ==
    IF cp = 0 THEN {0} ELSE {(cp \div mp) * 100}

\* motor.h:148-153 for given currPos and maxPos
CurrentPercentageOf(cp, mp) ==
    IF cp = 0 THEN {0}
    ELSE RoundCast(FMul(FloatOfInt(100), FDiv(FloatOfInt(cp), FloatOfInt(mp))))

(***************************************************************************)
(* State.  The program's globals (motor.h:27-32), the stepper engine, the  *)
(* Preferences store and the report channel; then history variables that   *)
(* only record what happened.                                              *)
(***************************************************************************)
VARIABLES
    maxPos, currPos, prevPos,           \* motor.h:27-29
    isSetMax, isSetMin, isMotorRunning, \* motor.h:30-32
    stPos, stTarget, stRunning,         \* stepper: position, target, isRunning()
    stSpeed,                            \* stepper: speed is max_speed / stSpeed
    stStopping,                         \* stepper: slowing after stopMove()
    calls,                              \* the engine calls of the last step
    asked,                              \* round trip: the percentage asked for
    enc,                                \* MotorTask: the encoder's unwrapping
    race,                               \* motorMoveTo and motorRun in steps
    memory,                             \* Preferences: key -> stored int
    nReports, lastReport,               \* sendMqtt: how many, and the last one
    nCompleted,                         \* moves the engine has ended
    stopCause,                          \* why the engine last stopped
    calClean, calMax, calPos,           \* a calibration issued from idle, and
                                        \* maxPos and the position at that time
    ev,                                 \* the last step taken
    nCmd, nStall, nAdv                  \* counters that bound a behaviour

progVars == <<maxPos, currPos, prevPos, isSetMax, isSetMin, isMotorRunning>>
motorVars == <<maxPos, currPos, prevPos, isSetMax, isSetMin, isMotorRunning,
               stPos, stTarget, stRunning, stSpeed, stStopping, calls, memory,
               nReports, lastReport, nCompleted, stopCause, calClean, calMax,
               calPos, ev, asked, race, nCmd, nStall, nAdv>>
motorVarsButRace ==
    <<maxPos, currPos, prevPos, isSetMax, isSetMin, isMotorRunning, stPos,
      stTarget, stRunning, stSpeed, stStopping, calls, memory, nReports,
      lastReport, nCompleted, stopCause, calClean, calMax, calPos, ev, asked,
      nCmd, nStall, nAdv>>
vars == <<motorVars, enc>>

\* what the handlers of motor.h, run one at a time, leave alone
aux == <<asked, enc, race>>

\* the state the handlers read and write, as one record
St ==
    [maxPos |-> maxPos, currPos |-> currPos, prevPos |-> prevPos,
     isSetMax |-> isSetMax, isSetMin |-> isSetMin,
     isMotorRunning |-> isMotorRunning,
     stPos |-> stPos, stTarget |-> stTarget, stRunning |-> stRunning,
     stSpeed |-> stSpeed, stStopping |-> stStopping, calls |-> <<>>,
     memory |-> memory,
     nReports |-> nReports, lastReport |-> lastReport,
     nCompleted |-> nCompleted, stopCause |-> stopCause]

Becomes(t) ==
    /\ maxPos' = t.maxPos /\ currPos' = t.currPos /\ prevPos' = t.prevPos
    /\ isSetMax' = t.isSetMax /\ isSetMin' = t.isSetMin
    /\ isMotorRunning' = t.isMotorRunning
    /\ stPos' = t.stPos /\ stTarget' = t.stTarget /\ stRunning' = t.stRunning
    /\ stSpeed' = t.stSpeed /\ stStopping' = t.stStopping
    /\ calls' = t.calls /\ memory' = t.memory
    /\ nReports' = t.nReports /\ lastReport' = t.lastReport
    /\ nCompleted' = t.nCompleted /\ stopCause' = t.stopCause

(***************************************************************************)
(* Preferences (motor.h:23): getInt(key, default) and putInt(key, value).  *)
(***************************************************************************)
GetInt(mem, key, default) ==
    IF key \in DOMAIN mem THEN mem[key] ELSE default

PutInt(mem, key, value) ==
    [k \in (DOMAIN mem) \cup {key} |-> IF k = key THEN value ELSE mem[k]]

(***************************************************************************)
(* The stepper engine, as the handlers use it.                             *)
(***************************************************************************)
\* a call of the engine, as the history of a step records it
Call(f, a) == [f |-> f, a |-> a]

\* stepper->forceStop(): an abrupt stop where the motor is
ForceStop(s) ==
    LET c == [s EXCEPT !.calls = Append(@, Call("forceStop", 0))] IN
    IF s.stRunning
      THEN [c EXCEPT !.stRunning = FALSE, !.stTarget = s.stPos,
                     !.stStopping = FALSE]
      ELSE c

\* stepper->moveTo(p)
MoveTo(s, p) ==
    LET c == [s EXCEPT !.calls = Append(@, Call("moveTo", p))] IN
    IF p = s.stPos
      THEN [c EXCEPT !.stTarget = p]
      ELSE [c EXCEPT !.stTarget = p, !.stRunning = TRUE, !.stStopping = FALSE]

\* stepper->stopMove(): decelerate; the engine comes to rest at stopAt,
\* between where it is and where it was going
StopMove(s, stopAt) ==
    LET c == [s EXCEPT !.calls = Append(@, Call("stopMove", 0))] IN
    IF s.stRunning
      THEN [c EXCEPT !.stTarget = stopAt, !.stStopping = TRUE]
      ELSE c

\* stepper->setCurrentPosition(p): the counter is renamed, the target with it
SetCurrentPosition(s, p) ==
    [s EXCEPT !.stPos = p, !.stTarget = Add32(@, Sub32(p, s.stPos)),
              !.calls = Append(@, Call("setCurrentPosition", p))]

\* stepper->setSpeedInHz(max_speed / div)
SetSpeedInHz(s, div) ==
    [s EXCEPT !.stSpeed = div, !.calls = Append(@, Call("setSpeedInHz", div))]

\* history: a handler that took the engine from running to stopped has
\* ended a move (for the reason given); one that leaves it running has not
Note(s, t, cause) ==
    [t EXCEPT !.nCompleted = IF s.stRunning /\ ~t.stRunning THEN @ + 1 ELSE @,
              !.stopCause  = IF t.stRunning THEN "none"
                             ELSE IF s.stRunning THEN cause ELSE @]

(***************************************************************************)
(* The handlers of motor.h, as functions from the state before to the      *)
(* states after (a set: a conversion with undefined behaviour has more     *)
(* than one outcome).                                                      *)
(***************************************************************************)
\* motor.h:96-99
percentToSteps(s, percent) == PercentToStepsOf(percent, s.maxPos)

\* motor.h:148-153
motorCurrentPercentage(s) == CurrentPercentageOf(s.currPos, s.maxPos)

\* motor.h:103-112
\* motorMoveTo forcing a stop only when the motor has to turn around
motorMoveToOnReversal(s, newPos) ==
    LET s0 == [s EXCEPT !.calls = Append(@, Call("motorMoveTo", newPos))]
        s1 == IF \/ (newPos < s.stPos /\ s.stPos < s.stTarget)
                 \/ (newPos > s.stPos /\ s.stPos > s.stTarget)
                THEN ForceStop(s0) ELSE s0
    IN  IF newPos # s1.stPos /\ newPos <= s1.maxPos
          THEN [MoveTo(s1, newPos) EXCEPT !.isMotorRunning = TRUE]
          ELSE s1

\* motorMoveTo issuing the move even to where the motor already is
motorMoveToAlways(s, newPos) ==
    LET s0 == [s EXCEPT !.calls = Append(@, Call("motorMoveTo", newPos))]
        s1 == IF \/ (newPos < s.stTarget /\ s.stPos < s.stTarget)
                 \/ (newPos > s.stTarget /\ s.stPos > s.stTarget)
                THEN ForceStop(s0) ELSE s0
    IN  IF newPos <= s1.maxPos
          THEN [MoveTo(s1, newPos) EXCEPT !.isMotorRunning = TRUE]
          ELSE s1

motorMoveTo(s, newPos) ==
    LET s0 == [s EXCEPT !.calls = Append(@, Call("motorMoveTo", newPos))]
        s1 == IF \/ (newPos < s.stTarget /\ s.stPos < s.stTarget)
                 \/ (newPos > s.stTarget /\ s.stPos > s.stTarget)
                THEN ForceStop(s0) ELSE s0
    IN  IF newPos # s1.stPos /\ newPos <= s1.maxPos
          THEN [MoveTo(s1, newPos) EXCEPT !.isMotorRunning = TRUE]
          ELSE s1

\* motor.h:115-117
motorMove(s, percent) ==
    LET s0 == [s EXCEPT !.calls = Append(@, Call("motorMove", percent))]
    IN  {motorMoveTo(s0, newPos) : newPos \in percentToSteps(s, percent)}

\* motor.h:120-122
motorMin(s) == motorMoveTo(s, 0)

\* motor.h:125-127
motorMax(s) == motorMoveTo(s, s.maxPos)

\* motor.h:130-135
motorSetMax(s) ==
    LET s1 == [s EXCEPT !.isSetMax = TRUE]
        s2 == SetSpeedInHz(s1, SLOW_DIV)
        s3 == [s2 EXCEPT !.maxPos = SENTINEL]
    IN  motorMoveTo(s3, SENTINEL)

\* a SetMin that, like SetMax, opens the travel window when it is issued
motorSetMinOpensWindow(s) ==
    LET s1 == [s EXCEPT !.isSetMin = TRUE]
        s2 == SetSpeedInHz(s1, SLOW_DIV)
        s3 == [s2 EXCEPT !.prevPos = s2.stPos, !.maxPos = SENTINEL]
        s4 == SetCurrentPosition(s3, SENTINEL)
    IN  motorMoveTo(s4, 0)

\* motor.h:138-144
motorSetMin(s) ==
    LET s1 == [s EXCEPT !.isSetMin = TRUE]
        s2 == SetSpeedInHz(s1, SLOW_DIV)
        s3 == [s2 EXCEPT !.prevPos = s2.stPos]
        s4 == SetCurrentPosition(s3, SENTINEL)
    IN  motorMoveTo(s4, 0)

\* a stop that also gives up the calibration in progress
motorStopAbortsCalibration(s, stopAt) ==
    [StopMove(s, stopAt) EXCEPT !.isSetMax = FALSE, !.isSetMin = FALSE]

\* motor.h:156-158
motorStop(s, stopAt) == StopMove(s, stopAt)

\* a commit of SetMax that, like the one of SetMin, stores nothing
commitSetMaxNotStored(s) ==
    LET s1 == [s EXCEPT !.isSetMax = FALSE]
        s2 == [s1 EXCEPT !.maxPos = s1.stPos]
    IN  SetSpeedInHz(s2, NORMAL_DIV)

\* motor.h:167-171: the poll's commit of a SetMax
commitSetMax(s) ==
    LET s1 == [s EXCEPT !.isSetMax = FALSE]
        s2 == [s1 EXCEPT !.maxPos = s1.stPos]
        s3 == [s2 EXCEPT !.memory = PutInt(@, "maxPos", s2.maxPos)]
    IN  SetSpeedInHz(s3, NORMAL_DIV)

\* motor.h:172-178: the poll's commit of a SetMin
commitSetMin(s) ==
    LET s1 == [s EXCEPT !.isSetMin = FALSE]
        distanceTraveled == Sub32(SENTINEL, s1.stPos)
        s2 == [s1 EXCEPT !.maxPos =
                  Sub32(Add32(s1.maxPos, distanceTraveled), s1.prevPos)]
        s3 == SetCurrentPosition(s2, 0)
    IN  SetSpeedInHz(s3, NORMAL_DIV)

\* a finalization that stores the position of the poll before
finalizeStoresStale(s) ==
    LET s1 == [s EXCEPT !.memory = PutInt(@, "currPos", s.currPos)]
        s2 == [s1 EXCEPT !.currPos = s.stPos]
    IN  {[s2 EXCEPT !.nReports = @ + 1, !.lastReport = pct] :
            pct \in motorCurrentPercentage(s2)}

\* motor.h:180-182: position saved and reported
finalize(s) ==
    LET s1 == [s EXCEPT !.currPos = s.stPos]
        s2 == [s1 EXCEPT !.memory = PutInt(@, "currPos", s1.currPos)]
    IN  {[s2 EXCEPT !.nReports = @ + 1, !.lastReport = pct] :
            pct \in motorCurrentPercentage(s2)}

\* a poll that drops a pending calibration instead of committing it
motorRunDropsCalibration(s) ==
    IF s.isMotorRunning /\ ~s.stRunning
      THEN finalize([s EXCEPT !.isMotorRunning = FALSE, !.isSetMax = FALSE,
                              !.isSetMin = FALSE])
      ELSE {s}

\* motor.h:165-182: what motorRun does once it has found the engine stopped
motorRunEnded(s) ==
    LET s1 == [s EXCEPT !.isMotorRunning = FALSE]
        s2 == IF s1.isSetMax THEN commitSetMax(s1)
              ELSE IF s1.isSetMin THEN commitSetMin(s1)
              ELSE s1
    IN  finalize(s2)

\* motor.h:161-185
motorRun(s) ==
    IF s.isMotorRunning /\ ~s.stRunning THEN motorRunEnded(s) ELSE {s}

\* an interrupt that also takes note of the position and ends the move
stallguardInterruptFinalizes(s) ==
    [ForceStop(s) EXCEPT !.currPos = s.stPos, !.isMotorRunning = FALSE]

\* motor.h:35-38
stallguardInterrupt(s) == ForceStop(s)

\* motor.h:41-46
loadPositions(s) ==
    LET s1 == [s EXCEPT !.maxPos = GetInt(s.memory, "maxPos", DEFAULT_MAXPOS)]
        s2 == [s1 EXCEPT !.currPos =
                  GetInt(s.memory, "currPos", DEFAULT_CURRPOS)]
    IN  SetCurrentPosition(s2, s2.currPos)

\* motor.h:27-32 and 50-93: the globals as the program starts with them, a
\* fresh engine at normal speed, then the stored positions
motorSetup(s) ==
    loadPositions(
        [s EXCEPT !.prevPos = 0, !.isSetMax = FALSE, !.isSetMin = FALSE,
                  !.isMotorRunning = FALSE,
                  !.stPos = 0, !.stTarget = 0, !.stRunning = FALSE,
                  !.stStopping = FALSE, !.stSpeed = NORMAL_DIV])

(***************************************************************************)
(* The engine's own progress.                                              *)
(***************************************************************************)
\* whether a motor at pos gets to target within d steps
Within(pos, target, d) ==
    IF target > pos
      THEN target < MININT + d \/ target - d <= pos
      ELSE target > MAXINT - d \/ target + d >= pos

\* where a motor at pos heading for target is after d steps
Toward(pos, target, d) ==
    IF Within(pos, target, d) THEN target
    ELSE IF target > pos THEN pos + d ELSE pos - d

Idle == ~isMotorRunning /\ ~stRunning /\ ~isSetMax /\ ~isSetMin

Event(op) ==
    [op |-> op, cause |-> stopCause,
     cal |-> IF isSetMax THEN "max" ELSE IF isSetMin THEN "min" ELSE "none",
     clean |-> calClean]

(***************************************************************************)
(* Initial state: the first start, nothing stored yet (motorSetup).        *)
(***************************************************************************)
\* motor_task.h:71: encod_pos_ = 0, with the first raw reading taken
EncoderAt(ticks) ==
    [start |-> ticks, prev |-> ticks, pos |-> 0, net |-> 0, delta |-> 0,
     n |-> 0]

\* no handler is between two of its statements, no move is owed a poll
RaceIdle == [hpc |-> "idle", ppc |-> "idle", owed |-> FALSE]

Boot ==
    [maxPos |-> 0, currPos |-> 0, prevPos |-> 0,
     isSetMax |-> FALSE, isSetMin |-> FALSE, isMotorRunning |-> FALSE,
     stPos |-> 0, stTarget |-> 0, stRunning |-> FALSE, stSpeed |-> NORMAL_DIV,
     stStopping |-> FALSE, calls |-> <<>>,
     memory |-> [k \in {} |-> 0],
     nReports |-> 0, lastReport |-> 0, nCompleted |-> 0, stopCause |-> "none"]

\* the state after a start with `stored` in the key-value store (with the
\* percentage that a round trip is going to ask for, and the encoder's
\* reading)
Started(stored, percent, ticks) ==
    LET t == motorSetup([Boot EXCEPT !.memory = stored]) IN
    /\ maxPos = t.maxPos /\ currPos = t.currPos /\ prevPos = t.prevPos
    /\ isSetMax = t.isSetMax /\ isSetMin = t.isSetMin
    /\ isMotorRunning = t.isMotorRunning
    /\ stPos = t.stPos /\ stTarget = t.stTarget /\ stRunning = t.stRunning
    /\ stSpeed = t.stSpeed /\ stStopping = t.stStopping
    /\ calls = t.calls /\ memory = t.memory
    /\ nReports = 0 /\ lastReport = 0 /\ nCompleted = 0 /\ stopCause = "none"
    /\ calClean = FALSE /\ calMax = t.maxPos /\ calPos = t.stPos
    /\ ev = [op |-> "motorSetup", cause |-> "none", cal |-> "none",
             clean |-> FALSE]
    /\ asked = percent
    /\ enc = EncoderAt(ticks)
    /\ race = RaceIdle
    /\ nCmd = 0 /\ nStall = 0 /\ nAdv = 0

Init == Started(Boot.memory, 0, 0)

(***************************************************************************)
(* Actions.                                                                *)
(***************************************************************************)
\* a command handler ran: it is no longer "a calibration and nothing else"
Command(op) ==
    /\ nCmd < MaxCmds
    /\ nCmd' = nCmd + 1
    /\ ev' = Event(op)
    /\ UNCHANGED <<nStall, nAdv>>

\* MQTT message: a percentage
DoMove(percent) ==
    /\ UNCHANGED aux
    /\ Command("motorMove")
    /\ \E t \in motorMove(St, percent) : Becomes(Note(St, t, "reversal"))
    /\ calClean' = FALSE
    /\ UNCHANGED <<calMax, calPos>>

\* MQTT message: close
DoMin ==
    /\ UNCHANGED aux
    /\ Command("motorMin")
    /\ Becomes(Note(St, motorMin(St), "reversal"))
    /\ calClean' = FALSE
    /\ UNCHANGED <<calMax, calPos>>

\* MQTT message: open
DoMax ==
    /\ UNCHANGED aux
    /\ Command("motorMax")
    /\ Becomes(Note(St, motorMax(St), "reversal"))
    /\ calClean' = FALSE
    /\ UNCHANGED <<calMax, calPos>>

\* MQTT message: stop
DoStop(d) ==
    /\ UNCHANGED aux
    /\ Command("motorStop")
    /\ Becomes(Note(St, motorStop(St, Toward(stPos, stTarget, d)), "stop"))
    /\ calClean' = FALSE
    /\ UNCHANGED <<calMax, calPos>>

\* MQTT message: set max
DoSetMax ==
    /\ UNCHANGED aux
    /\ Command("motorSetMax")
    /\ Becomes(Note(St, motorSetMax(St), "reversal"))
    /\ calClean' = Idle
    /\ IF isSetMax \/ isSetMin
         THEN UNCHANGED <<calMax, calPos>>
         ELSE calMax' = maxPos /\ calPos' = stPos

\* MQTT message: set min
DoSetMin ==
    /\ UNCHANGED aux
    /\ Command("motorSetMin")
    /\ Becomes(Note(St, motorSetMin(St), "reversal"))
    /\ calClean' = Idle
    /\ IF isSetMax \/ isSetMin
         THEN UNCHANGED <<calMax, calPos>>
         ELSE calMax' = maxPos /\ calPos' = stPos

\* loop(): the poll, when it finds a move to finalize
Poll ==
    /\ UNCHANGED aux
    /\ isMotorRunning /\ ~stRunning
    /\ \E t \in motorRun(St) : Becomes(t)
    /\ ev' = Event("motorRun")
    /\ calClean' = FALSE
    /\ UNCHANGED <<calMax, calPos, nCmd, nStall, nAdv>>

\* the driver's DIAG pin rises while the motor is driven
Stall ==
    /\ UNCHANGED aux
    /\ stRunning
    /\ nStall < MaxStalls
    /\ Becomes(Note(St, stallguardInterrupt(St), "stall"))
    /\ nStall' = nStall + 1
    /\ ev' = Event("stallguardInterrupt")
    /\ UNCHANGED <<calClean, calMax, calPos, nCmd, nAdv>>

\* the engine takes d steps and is still short of its target
EngineAdvance(d) ==
    /\ UNCHANGED aux
    /\ stRunning
    /\ nAdv < MaxAdvances
    /\ ~Within(stPos, stTarget, d)
    /\ stPos' = Toward(stPos, stTarget, d)
    /\ nAdv' = nAdv + 1
    /\ ev' = Event("advance")
    /\ calls' = <<>>
    /\ UNCHANGED <<progVars, stTarget, stRunning, stSpeed, stStopping, memory,
                   nReports, lastReport, nCompleted, stopCause, calClean,
                   calMax, calPos, nCmd, nStall>>

\* the engine reaches its target and stops
EngineArrive ==
    /\ UNCHANGED aux
    /\ stRunning
    /\ stPos' = stTarget
    /\ stRunning' = FALSE
    /\ stStopping' = FALSE
    /\ nCompleted' = nCompleted + 1
    /\ stopCause' = IF stStopping THEN "stop" ELSE "target"
    /\ ev' = Event("arrive")
    /\ calls' = <<>>
    /\ UNCHANGED <<progVars, stTarget, stSpeed, memory, nReports, lastReport,
                   calClean, calMax, calPos, nCmd, nStall, nAdv>>

\* power cycle: the program starts again from what is stored; the moves and
\* reports counted are those since the start
Restart ==
    /\ UNCHANGED aux
    /\ Command("motorSetup")
    /\ Becomes([motorSetup(St) EXCEPT !.stopCause = "none", !.nCompleted = 0,
                                      !.nReports = 0, !.lastReport = 0])
    /\ calClean' = FALSE
    /\ UNCHANGED <<calMax, calPos>>

Next ==
    \/ \E percent \in Percents : DoMove(percent)
    \/ DoMin
    \/ DoMax
    \/ \E d \in Strides \cup {0} : DoStop(d)
    \/ DoSetMax
    \/ DoSetMin
    \/ Poll
    \/ Stall
    \/ \E d \in Strides : EngineAdvance(d)
    \/ EngineArrive
    \/ Restart

Spec == Init /\ [][Next]_vars

(***************************************************************************)
(* The round trip of a percentage: a shade calibrated to one of            *)
(* RtMaxPositions rests closed, is asked for one of RtPercents, arrives,   *)
(* and the poll reports where it is.                                       *)
(***************************************************************************)
RtMaxPositions ==
    {1, 2, 33, 34, 35, 50, 99, 100, 101, 997, 48731, 50000, 16777217,
     16777219, 2147483583, 2147483584, SENTINEL}

RtPercents == 0..100

RtInit ==
    \E mp \in RtMaxPositions, percent \in RtPercents :
       Started(PutInt(PutInt(Boot.memory, "maxPos", mp), "currPos", 0),
               percent, 0)

RtMove == nCmd = 0 /\ DoMove(asked)

RtNext ==
    \/ RtMove
    \/ EngineArrive
    \/ Poll

SpecRoundTrip == RtInit /\ [][RtNext]_vars

(***************************************************************************)
(* MotorTask's encoder.  motor_task.h declares encod_pos_ and the ratios   *)
(* of 4096 ticks to a turn; the unwrapping itself is modelled from the     *)
(* specification: delta = current - previous ticks, less a turn when above *)
(* half a turn, plus a turn when below minus half a turn, accumulated.     *)
(***************************************************************************)
TICKS_PER_REV == 4096

MaxPolls == 3

EncStarts == {0, 2, 2048, 4090, 4095}

\* true motion between two polls, in ticks: less than half a turn
EncMotions == {-2047, -8, -1, 0, 3, 5, 8, 2047}

\* the difference of two readings taken as it is
UnwrapNot(delta) == delta

Unwrap(delta) ==
    IF delta > TICKS_PER_REV \div 2 THEN delta - TICKS_PER_REV
    ELSE IF delta < -(TICKS_PER_REV \div 2) THEN delta + TICKS_PER_REV
    ELSE delta

\* a poll reads `ticks`
ReadEncoder(e, ticks) ==
    LET delta == Unwrap(ticks - e.prev)
    IN  [e EXCEPT !.prev = ticks, !.delta = delta, !.pos = @ + delta]

EncInit == \E ticks \in EncStarts : Started(Boot.memory, 0, ticks)

\* the shaft turns by m ticks and the poll reads the sensor
EncoderPoll(m) ==
    /\ enc.n < MaxPolls
    /\ enc' = [ReadEncoder(enc, (enc.prev + m) % TICKS_PER_REV)
                 EXCEPT !.net = @ + m, !.n = @ + 1]
    /\ UNCHANGED motorVars

EncNext == \E m \in EncMotions : EncoderPoll(m)

SpecEncoder == EncInit /\ [][EncNext]_vars

(***************************************************************************)
(* motorMoveTo and motorRun statement by statement: the command arrives in *)
(* the MQTT callback while loop() polls, and vTaskDelay(1) in motorRun     *)
(* yields (motor.h:102: "Stepper must move first before                    *)
(* isMotorRunning==true; else motorRun will excute first").                *)
(***************************************************************************)
RaceTargets == {0, 25000, 50000}

IssuedMoveTo(t) == \E i \in DOMAIN t.calls : t.calls[i].f = "moveTo"

\* motor.h:104-109: motorMoveTo up to and including stepper->moveTo
RaceMoveTo(newPos) ==
    /\ race.hpc = "idle"
    /\ nCmd < MaxCmds
    /\ LET t == motorMoveTo(St, newPos) IN
         /\ Becomes(Note(St, [t EXCEPT !.isMotorRunning = isMotorRunning],
                         "reversal"))
         /\ race' = [race EXCEPT
                        !.hpc = IF IssuedMoveTo(t) THEN "flag" ELSE "idle",
                        !.owed = @ \/ IssuedMoveTo(t)]
    /\ nCmd' = nCmd + 1
    /\ ev' = Event("motorMoveTo")
    /\ UNCHANGED <<asked, enc, calClean, calMax, calPos, nStall, nAdv>>

\* motor.h:110: isMotorRunning = true
RaceSetFlag ==
    /\ race.hpc = "flag"
    /\ Becomes([St EXCEPT !.isMotorRunning = TRUE])
    /\ race' = [race EXCEPT !.hpc = "idle"]
    /\ ev' = Event("motorMoveTo")
    /\ UNCHANGED <<asked, enc, calClean, calMax, calPos, nCmd, nStall, nAdv>>

\* motor.h:162-163: if (isMotorRunning) vTaskDelay(1)
RacePollTest ==
    /\ race.ppc = "idle"
    /\ isMotorRunning
    /\ race' = [race EXCEPT !.ppc = "delay"]
    /\ UNCHANGED <<motorVarsButRace, enc>>

\* motor.h:164: if (!stepper->isRunning())
RacePollCheck ==
    /\ race.ppc = "delay"
    /\ race' = [race EXCEPT !.ppc = IF stRunning THEN "idle" ELSE "ended"]
    /\ UNCHANGED <<motorVarsButRace, enc>>

\* motor.h:165-182: the flag cleared, the commit, the position saved and
\* reported; a move the engine is still running stays owed its poll
RacePollEnd ==
    /\ race.ppc = "ended"
    /\ \E t \in motorRunEnded(St) : Becomes(t)
    /\ race' = [race EXCEPT !.ppc = "idle", !.owed = stRunning]
    /\ ev' = Event("motorRun")
    /\ UNCHANGED <<asked, enc, calClean, calMax, calPos, nCmd, nStall, nAdv>>

RaceNext ==
    \/ \E newPos \in RaceTargets : RaceMoveTo(newPos)
    \/ RaceSetFlag
    \/ RacePollTest
    \/ RacePollCheck
    \/ RacePollEnd
    \/ EngineArrive

SpecRace == Init /\ [][RaceNext]_vars

(***************************************************************************)
(* Properties.                                                             *)
(***************************************************************************)
\* the step taken is the poll finalizing a move
PollStep == ev'.op = "motorRun"

\* what the poll's SetMin arithmetic yields in int: maxPos + (2147483646 -
\* position) - prevPos
SetMinResult == Sub32(Add32(maxPos, Sub32(SENTINEL, stPos)), prevPos)

\* C1 as stated: the poll after a stall never commits a pending MaxPosition
\* change; with a calibration in flight MaxPosition is again what it was
\* before the calibration was started.
C1_StallCommitsNothing ==
    [][(PollStep /\ stopCause = "stall")
        => /\ ~stRunning'
           /\ maxPos' = (IF isSetMax \/ isSetMin THEN calMax ELSE maxPos)]_vars

\* C1 amended: a stall force-stops the engine where it is, and the poll that
\* follows finalizes the move; MaxPosition stays as it is when no calibration
\* is pending, a pending SetMax is committed to the position of the stall
\* and stored, and a pending SetMin alone is committed by its arithmetic.
C1_StallIsFinalizedLikeAnyStop ==
    [][(PollStep /\ stopCause = "stall")
        => /\ ~stRunning /\ stTarget = stPos
           /\ ~stRunning' /\ ~isMotorRunning'
           /\ nReports' = nReports + 1
           /\ currPos' = stPos'
           /\ GetInt(memory', "currPos", DEFAULT_CURRPOS) = stPos'
           /\ maxPos' = (IF isSetMax THEN stPos
                         ELSE IF isSetMin THEN SetMinResult
                         ELSE maxPos)
           /\ (isSetMax => GetInt(memory', "maxPos", DEFAULT_MAXPOS) = stPos)]_vars

\* C1 witness: a SetMax was stalled 48731 steps on and the poll has run
C1_Witness ==
    /\ ev.op = "motorRun" /\ ev.cause = "stall" /\ ev.cal = "max"
    /\ maxPos = 48731 /\ calMax = DEFAULT_MAXPOS

\* C2 as stated: the two calibration phases are never pending together.
C2_NeverBothCalibrations == ~(isSetMin /\ isSetMax)

\* C3: a SetMax issued from idle and stopped by a stall at position X is
\* committed by the poll: MaxPosition = X, X stored under maxPos, normal
\* speed, no calibration pending.
C3_SetMaxCommitsStallPosition ==
    [][(PollStep /\ calClean /\ isSetMax /\ stopCause = "stall")
        => /\ maxPos' = stPos
           /\ "maxPos" \in DOMAIN memory' /\ memory'["maxPos"] = stPos
           /\ stSpeed' = NORMAL_DIV
           /\ ~isSetMax' /\ ~isSetMin']_vars

\* C3 witness: the scenario of the specification, a stall at 48731
C3_Witness ==
    /\ ev.op = "motorRun" /\ ev.clean /\ ev.cal = "max" /\ ev.cause = "stall"
    /\ maxPos = 48731 /\ GetInt(memory, "maxPos", DEFAULT_MAXPOS) = 48731
    /\ stSpeed = NORMAL_DIV /\ ~isSetMax /\ ~isSetMin

\* C4 as stated: a SetMin issued from idle at position P with max M, the
\* motor having travelled D, is completed with Position 0 and MaxPosition
\* M + D - P (the exact sum), normal speed, no calibration pending.
C4_SetMinKeepsMaxInPlace ==
    [][(PollStep /\ calClean /\ isSetMin /\ ~isSetMax)
        => /\ stPos' = 0 /\ currPos' = 0
           /\ ExactSum(calMax, SENTINEL - stPos, calPos, maxPos')
           /\ stSpeed' = NORMAL_DIV
           /\ ~isSetMin']_vars

\* C5 as stated: MaxPosition changes only in the poll step that completes a
\* calibration phase.
C5_MaxChangesOnlyOnCompletion ==
    [][maxPos' # maxPos => (PollStep /\ (isSetMax \/ isSetMin))]_vars

\* C5 amended: after startup MaxPosition changes only when SetMax is issued
\* (it becomes the sentinel 2147483646) and in the poll step that completes
\* a calibration phase; issuing SetMin, a move or a stop, the stall
\* interrupt, the engine's progress and the completion of a move that is no
\* calibration leave it as it is.
C5_MaxChangesOnSetMaxAndCompletion ==
    [][(maxPos' # maxPos /\ ev'.op # "motorSetup")
        => \/ ev'.op = "motorSetMax" /\ maxPos' = SENTINEL
           \/ PollStep /\ (isSetMax \/ isSetMin)]_vars

\* C5 witness: SetMax put the sentinel in MaxPosition, the poll replaced it
\* by the position of the stall, 48731, and a move to 50% that was no
\* calibration has since been finalized without touching it
C5_Witness ==
    /\ ev.op = "motorRun" /\ ev.cal = "none"
    /\ maxPos = 48731 /\ currPos = 24366

\* C6 as stated: after a completed calibration phase the stored maxPos is
\* the MaxPosition in memory.
C6_MaxIsStoredOnCompletion ==
    (ev.op = "motorRun" /\ ev.cal # "none")
        => GetInt(memory, "maxPos", DEFAULT_MAXPOS) = maxPos

\* C7 as stated: a percentage command never gives the engine a target
\* outside 0..MaxPosition.
C7_PercentTargetInWindow ==
    [][(ev'.op = "motorMove" /\ stRunning' /\ stTarget' # stTarget)
        => (0 <= stTarget' /\ stTarget' <= maxPos')]_vars

\* C8 as stated: with no calibration pending, the finalized Position is
\* never negative.
C8_PositionNotNegative ==
    (~isSetMax /\ ~isSetMin) => currPos >= 0

\* C9 as stated: MaxPosition is never negative.
C9_MaxNotNegative == maxPos >= 0

\* C10 as stated: once everything the engine has ended is finalized, there
\* is exactly one report for every move ended and every stall.
C10_OneReportPerEndedMove ==
    (~isMotorRunning /\ ~stRunning) => nReports = nCompleted

(***************************************************************************)
(* What a step called: the log of the last step's calls.                   *)
(***************************************************************************)
Called(f) == \E i \in DOMAIN calls : calls[i].f = f

\* the step is one of the commands that take the shade to a position
MoveCommand == ev'.op \in {"motorMove", "motorMin", "motorMax"}

\* C11 (as stated): a command that takes the shade to a position forces a
\* stop exactly when a move is in progress and the new target and the target
\* of that move lie on opposite sides of where the motor is.
C11_ForceStopOnlyOnReversal ==
    [][MoveCommand =>
         \A i \in DOMAIN calls' :
            calls'[i].f = "motorMoveTo" =>
              (Called("forceStop")' <=>
                 /\ stRunning
                 /\ \/ (calls'[i].a < stPos /\ stPos < stTarget)
                    \/ (calls'[i].a > stPos /\ stPos > stTarget))]_vars

\* C11 (amended): a command that takes the shade to a position forces a stop
\* exactly when a move is in progress and the new target lies short of that
\* move's target, on the side the motor is on: behind the motor (a reversal),
\* where the motor is, or ahead of it in the direction of travel.  At rest,
\* or with a new target at or beyond the old one, no stop is forced.  The
\* forced stop, when there is one, precedes the moveTo.
C11_ForceStopWhenTargetFallsShort ==
    [][MoveCommand =>
         \A i \in DOMAIN calls' :
            calls'[i].f = "motorMoveTo" =>
              /\ Called("forceStop")' <=>
                   /\ stRunning
                   /\ \/ (calls'[i].a < stTarget /\ stPos < stTarget)
                      \/ (calls'[i].a > stTarget /\ stPos > stTarget)
              /\ \A j \in DOMAIN calls' :
                   calls'[j].f = "forceStop" =>
                     \A k \in DOMAIN calls' : calls'[k].f = "moveTo" => j < k
    ]_vars

\* a move to a target ahead of the motor and short of the old target has
\* forced a stop and started the new move
C11_Witness ==
    /\ ev.op = "motorMove"
    /\ calls = <<Call("motorMove", 50), Call("motorMoveTo", 25000),
                 Call("forceStop", 0), Call("moveTo", 25000)>>
    /\ stPos = 0 /\ stTarget = 25000 /\ stRunning /\ maxPos = 50000

\* the step is a motorMove whose percentage converts to where the motor is
MoveToWhereItIs ==
    /\ ev'.op = "motorMove"
    /\ \E i \in DOMAIN calls' : calls'[i] = Call("motorMoveTo", stPos)

\* C12 (as stated): a move to a percentage that converts to the current
\* position is a no-op: no moveTo and no forceStop is issued, isMotorRunning
\* is not set, nothing is reported and nothing is stored.
C12_MoveToCurrentPositionIsNoOp ==
    [][MoveToWhereItIs =>
         /\ ~Called("moveTo")' /\ ~Called("forceStop")'
         /\ UNCHANGED <<isMotorRunning, memory, nReports, lastReport>>]_vars

\* C12 (amended): with the engine at rest, a move to a percentage that
\* converts to the current position is a no-op: no engine call, no change of
\* isMotorRunning, of the positions, of the store or of the reports.  With a
\* move in progress through that position no moveTo is issued either and
\* isMotorRunning is not changed, but the engine is force-stopped there when
\* it was heading for another target.
C12_MoveToRestingPositionIsNoOp ==
    [][MoveToWhereItIs =>
         /\ ~Called("moveTo")'
         /\ Called("forceStop")' <=> (stRunning /\ stTarget # stPos)
         /\ UNCHANGED <<isMotorRunning, memory, nReports, lastReport>>
         /\ ~stRunning =>
              /\ Len(calls') = 2 /\ calls'[2] = Call("motorMoveTo", stPos)
              /\ UNCHANGED <<progVars, stPos, stTarget, stRunning, stSpeed,
                             stStopping, nCompleted, stopCause>>]_vars

\* a move to 50 percent with the shade already resting there did nothing
C12_Witness ==
    /\ ev.op = "motorMove"
    /\ calls = <<Call("motorMove", 50), Call("motorMoveTo", 25000)>>
    /\ stPos = 25000 /\ stTarget = 25000 /\ maxPos = 50000
    /\ ~stRunning /\ ~isMotorRunning /\ nReports = 1

\* C13 (as stated): for every percentage p in 0..100 and every MaxPosition
\* above 0, the percentage reported when a move to p has ended at its target
\* differs from p by at most 1.
C13_RoundTripWithinOne ==
    [][(PollStep /\ stopCause = "target" /\ maxPos > 0)
         => Abs(lastReport' - asked) <= 1]_vars

\* C13 (amended): the same for every MaxPosition from 34 to 2147483583: the
\* shade has enough steps for a percent to be told from the next but one,
\* and 100 percent of MaxPosition is still an int after its rounding to float.
C13_RoundTripWithinOneFrom34 ==
    [][(PollStep /\ stopCause = "target" /\ maxPos >= 34
          /\ maxPos <= 2147483583)
         => /\ Abs(lastReport' - asked) <= 1
            /\ stPos \in percentToSteps(St, asked)
            /\ nReports' = nReports + 1]_vars

\* with 34 steps, a move to 2 percent has gone to step 1 and reported 3
C13_Witness ==
    /\ ev.op = "motorRun" /\ ev.cause = "target"
    /\ maxPos = 34 /\ asked = 2 /\ stPos = 1 /\ currPos = 1
    /\ nReports = 1 /\ lastReport = 3

\* C14 (as stated): a stop command during a SetMin or SetMax calibration
\* aborts it: the poll that finds the motor stopped by that command leaves
\* MaxPosition, in memory and in the store, as it was before the calibration,
\* and no calibration is pending afterwards.
C14_StopAbortsCalibration ==
    [][(PollStep /\ stopCause = "stop" /\ (isSetMax \/ isSetMin))
         => /\ maxPos' = calMax
            /\ GetInt(memory', "maxPos", DEFAULT_MAXPOS)
                 = GetInt(memory, "maxPos", DEFAULT_MAXPOS)
            /\ ~isSetMax' /\ ~isSetMin']_vars

\* C14 (amended): a stop command during a calibration only makes the engine
\* decelerate to rest: it changes no flag, no position and nothing stored.
\* The poll that finds the motor stopped by it commits the calibration as
\* for any other stop: a pending SetMax sets MaxPosition to the position
\* reached and stores it; otherwise a pending SetMin sets MaxPosition to
\* maxPos + (2147483646 - position) - prevPos and renames the position 0.
\* The committed phase is no longer pending, the speed is normal again, and
\* the position is stored and reported once.
C14_StopEndsCalibration ==
    [][/\ ev'.op = "motorStop" =>
            /\ calls' = <<Call("stopMove", 0)>>
            /\ UNCHANGED <<progVars, stPos, stRunning, stSpeed, memory,
                           nReports, lastReport>>
            /\ stRunning => stStopping'
       /\ (PollStep /\ stopCause = "stop" /\ isSetMax) =>
            /\ maxPos' = stPos /\ stPos' = stPos
            /\ "maxPos" \in DOMAIN memory' /\ memory'["maxPos"] = stPos
            /\ ~isSetMax' /\ isSetMin' = isSetMin
       /\ (PollStep /\ stopCause = "stop" /\ isSetMin /\ ~isSetMax) =>
            /\ maxPos' = Sub32(Add32(maxPos, Sub32(SENTINEL, stPos)), prevPos)
            /\ stPos' = 0
            /\ ~isSetMin' /\ ~isSetMax'
       /\ (PollStep /\ stopCause = "stop" /\ (isSetMax \/ isSetMin)) =>
            /\ stSpeed' = NORMAL_DIV /\ ~isMotorRunning'
            /\ currPos' = stPos' /\ memory'["currPos"] = stPos'
            /\ nReports' = nReports + 1]_vars

\* a SetMax from 50000 stopped by command after 25000 steps has set
\* MaxPosition to 25000
C14_Witness ==
    /\ ev.op = "motorRun" /\ ev.cause = "stop" /\ ev.cal = "max"
    /\ calMax = 50000 /\ maxPos = 25000 /\ stPos = 25000 /\ currPos = 25000
    /\ memory = [maxPos |-> 25000, currPos |-> 25000]
    /\ Idle /\ nReports = 1 /\ lastReport = 100

\* C15: the stored position changes only in the poll step that finalizes an
\* ended move, and after every such step the stored currPos is the engine's
\* current position.  With MaxPosition 50000 and the shade at rest at 0, a
\* move to 50 percent is issued to 25000; the poll that finds the shade
\* arrived there reports 50 and stores 25000.
C15_PositionStoredByPollOnly ==
    [][/\ ("currPos" \in DOMAIN memory') =>
            \/ PollStep
            \/ ("currPos" \in DOMAIN memory
                  /\ memory'["currPos"] = memory["currPos"])
       /\ PollStep =>
            /\ "currPos" \in DOMAIN memory'
            /\ memory'["currPos"] = stPos' /\ currPos' = stPos'
       /\ (ev'.op = "motorMove" /\ calls'[1] = Call("motorMove", 50)
             /\ Idle /\ maxPos = 50000 /\ stPos = 0) =>
            /\ stTarget' = 25000 /\ stRunning' /\ isMotorRunning'
            /\ memory' = memory /\ nReports' = nReports
       /\ (PollStep /\ ~isSetMax /\ ~isSetMin /\ maxPos = 50000
             /\ stPos = 25000) =>
            /\ lastReport' = 50 /\ nReports' = nReports + 1
            /\ memory'["currPos"] = 25000]_vars

\* the move to 50 percent of 50000 has arrived and has been finalized
C15_Witness ==
    /\ ev.op = "motorRun" /\ ev.cause = "target" /\ ev.cal = "none"
    /\ nCmd = 1 /\ nAdv = 0 /\ maxPos = 50000 /\ stPos = 25000
    /\ currPos = 25000 /\ memory = [currPos |-> 25000]
    /\ nReports = 1 /\ lastReport = 50 /\ Idle

C19_IdlePositionAtMostMax ==
    Idle => (currPos <= maxPos /\ stPos <= maxPos)

\* C16: with raw ticks in 0..4095 and less than half a turn of true motion
\* between polls, every unwrapped delta lies in -2048..2048 and the
\* accumulated logical position is the true net motion.
C16_UnwrapFollowsTrueMotion ==
    /\ enc.delta >= -(TICKS_PER_REV \div 2)
    /\ enc.delta <= TICKS_PER_REV \div 2
    /\ enc.pos = enc.net

\* the readings 4090, 4095, 2, 10 have accumulated 5 + 3 + 8
C16_Witness ==
    enc = [start |-> 4090, prev |-> 10, pos |-> 16, net |-> 16, delta |-> 8,
           n |-> 3]

\* C18 (as stated): with motorMoveTo and motorRun interleaved statement by
\* statement, whenever neither is between two of its statements and the
\* engine is running, or has stopped without a poll having finalized the
\* stop, isMotorRunning is true (so that a poll will finalize the move).
C18_NoStartedMoveIsLost ==
    (race.hpc = "idle" /\ race.ppc = "idle" /\ (stRunning \/ race.owed))
       => isMotorRunning

====
